---- MODULE Spec2Model ----
(***************************************************************************)
(* Model of the recipe backend's request handlers and of the single table  *)
(* they share: likeRecipe (a two-operation TransactWrite), getRecipe (a    *)
(* point read) and the recipe listing handler (a Scan), run as             *)
(* independently scheduled invocations against one table whose key schema  *)
(* is the one the stack declares (PK, SK).  createRecipe, updateRecipe and *)
(* deleteRecipe, which the stack deploys with write access to the table,   *)
(* act on it as single steps.  likeRecipe is a handler of the repository   *)
(* that the stack does not deploy; it is modelled as invoked like the      *)
(* others.                                                                 *)
(***************************************************************************)
EXTENDS Integers, Sequences, FiniteSets, TLC

VARIABLES table, inv, created

vars == <<table, inv, created>>

(* ------------------------------ bounds -------------------------------- *)

\* number of handler invocations in one behaviour
NumCalls == 2

Procs == 1..NumCalls
\* createdAt values, in their order
Times == {1, 2}

Owners == {"alice"}
RecipeIds == {"r1", "r2"}
Likers == {"bob", "carol"}
\* the title a patch of updateRecipe sets (a recipe is created as "soup")
PatchTitles == {"stew"}

(* --------------------------- program constants ------------------------ *)

\* ExpressionAttributeValues: { ":increment": 1 }
Increment == 1

\* partitionKey "PK", sortKey "SK" of the table the stack declares
KeySchema == {"PK", "SK"}

(* ----------------------------- request inputs ------------------------- *)

\* JSON bodies of likeRecipe requests: the two identifiers, a body without
\* userName, an empty recipeId, and bodies that carry PK / SK fields of
\* their own.
LikeBodies ==
    {[recipeId |-> "r1", userName |-> u] : u \in Likers}
    \cup {[recipeId |-> "r1"], [recipeId |-> "", userName |-> "bob"]}
    \cup {[recipeId |-> "r1", userName |-> "bob", PK |-> "LIKE#r2"],
          [recipeId |-> "r1", userName |-> "bob",
           PK |-> "USER#alice", SK |-> "RECIPE#r1"]}

\* path parameters of getRecipe requests
GetUsernames == {"", "alice"}
GetIds == {"", "r1"}

\* path parameter id of updateRecipe requests
UpdateIds == {"r1"}

(* ------------------------------ key schema ---------------------------- *)

\* `${body.f}` in a template literal: an absent field prints as "undefined"
Field(body, f) == IF f \in DOMAIN body THEN body[f] ELSE "undefined"

\* { PK: `LIKE#${body.recipeId}`, SK: `LIKE#${body.userName}`, ...body }:
\* the spread comes last, so a field of body replaces a computed one
NewItem(body) ==
    [f \in {"PK", "SK"} \cup DOMAIN body |->
        IF f \in DOMAIN body THEN body[f]
        ELSE IF f = "PK" THEN "LIKE#" \o Field(body, "recipeId")
        ELSE "LIKE#" \o Field(body, "userName")]

\* the Key of getRecipe's GetCommand
RecipeKey(username, id) == [PK |-> "USER#" \o username, SK |-> "RECIPE#" \o id]

\* the Like key the storage design prescribes for (recipeId, username)
LikeKey(recipeId, username) == [PK |-> "LIKE#" \o recipeId, SK |-> "LIKE#" \o username]

(* ------------------------------- the store ---------------------------- *)

SameKey(it, key) == it.PK = key.PK /\ it.SK = key.SK

HasItem(t, key) == \E it \in t : SameKey(it, key)

ItemAt(t, key) == CHOOSE it \in t : SameKey(it, key)

\* whether the store accepts one operation of a transaction: a key must
\* name exactly the table's key attributes; SET likeCount = likeCount + :i
\* needs an item that has likeCount; a Put item must carry the key attributes
OpValid(t, op) ==
    IF op.type = "Update"
    THEN /\ DOMAIN op.Key = KeySchema
         /\ HasItem(t, op.Key)
         /\ "likeCount" \in DOMAIN ItemAt(t, op.Key)
    ELSE KeySchema \subseteq DOMAIN op.Item

ApplyOp(t, op) ==
    IF op.type = "Update"
    THEN LET old == ItemAt(t, op.Key)
         IN (t \ {old}) \cup {[old EXCEPT !.likeCount = @ + op.inc]}
    ELSE {it \in t : ~SameKey(it, op.Item)} \cup {op.Item}

RECURSIVE ApplyAll(_, _)
ApplyAll(t, ops) ==
    IF ops = <<>> THEN t ELSE ApplyAll(ApplyOp(t, Head(ops)), Tail(ops))

RECURSIVE ApplyEach(_, _)
ApplyEach(t, ops) ==
    IF ops = <<>> THEN t
    ELSE ApplyEach(IF OpValid(t, Head(ops)) THEN ApplyOp(t, Head(ops)) ELSE t,
                   Tail(ops))

\* a batch that applies every operation the store accepts on its own
TransactWrite_nonAtomic(t, ops) ==
    [ok |-> \A i \in 1..Len(ops) : OpValid(t, ops[i]), table |-> ApplyEach(t, ops)]

\* docClient.send(new TransactWriteCommand(params)): all operations or none
TransactWrite(t, ops) ==
    LET ok == \A i \in 1..Len(ops) : OpValid(t, ops[i])
    IN [ok |-> ok, table |-> IF ok THEN ApplyAll(t, ops) ELSE t]

\* the Recipe items with a given id, whoever owns them
RecipeItems(t, id) ==
    {it \in t : it.SK = "RECIPE#" \o id /\ "likeCount" \in DOMAIN it}

\* the Like items recorded for a recipe id
LikeItems(t, id) == {it \in t : it.PK = "LIKE#" \o id}

RECURSIVE SumLikeCount(_)
SumLikeCount(items) ==
    IF items = {} THEN 0
    ELSE LET it == CHOOSE x \in items : TRUE
         IN it.likeCount + SumLikeCount(items \ {it})

\* the likeCount a reader finds for a recipe id
LikeCountOf(t, id) == SumLikeCount(RecipeItems(t, id))

\* lexicographic order of the sort keys that occur, as the store orders them
SortKeyOrder ==
    <<"LIKE#bob", "LIKE#carol", "LIKE#undefined", "RECIPE#r1", "RECIPE#r2">>

SortKeyRank(sk) ==
    IF \E i \in 1..Len(SortKeyOrder) : SortKeyOrder[i] = sk
    THEN CHOOSE i \in 1..Len(SortKeyOrder) : SortKeyOrder[i] = sk
    ELSE 0

\* the orders in which a Scan of the base table can return its items: one
\* partition after another (in the store's hash order, which the caller
\* does not control), the items of a partition by ascending sort key
ScanOrders(t) ==
    LET n == Cardinality(t)
    IN {s \in [1..n -> t] :
          /\ \A i, j \in 1..n : i # j => s[i] # s[j]
          /\ \A i, j \in 1..n :
               (i < j /\ s[i].PK = s[j].PK) =>
                  /\ SortKeyRank(s[i].SK) < SortKeyRank(s[j].SK)
                  /\ \A k \in i..j : s[k].PK = s[i].PK}

\* the shapes in which the client's send can hand over the scanned items:
\* plain values (what a document-style command yields) or attribute-value
\* maps such as { S: "..." } (what a low-level command yields)
SendFormats == {"plain", "attributeValue"}

\* one item as the send returns it: every attribute value with the type tag
\* it carries on the way, "none" for a plain value
Received(item, format) ==
    [f \in DOMAIN item |->
        [tag |-> IF format = "plain" THEN "none"
                 ELSE IF f = "likeCount" THEN "N" ELSE "S",
         val |-> item[f]]]

\* unmarshall(item) goes through: every attribute value is an
\* attribute-value map of a known type; on a plain string or number it
\* throws (Unsupported type passed / No value defined)
Unmarshallable(item) == \A f \in DOMAIN item : item[f].tag \in {"S", "N"}

\* unmarshall(item): the value under each type tag
Unmarshall(item) == [f \in DOMAIN item |-> item[f].val]

(* ------------------------------ validation ---------------------------- *)

\* Like.parse(newItem): the Like schema requires the two identifiers
LikeParse(item) ==
    /\ {"recipeId", "userName"} \subseteq DOMAIN item
    /\ item.recipeId # ""
    /\ item.userName # ""

(* ------------------------------ likeRecipe ---------------------------- *)

\* params.TransactItems without the counter update
LikeParams_putOnly(body) == <<[type |-> "Put", Item |-> NewItem(body)]>>

\* params.TransactItems: the counter update, then the Put of the Like item
LikeParams(body) ==
    <<[type |-> "Update", Key |-> [recipeId |-> Field(body, "recipeId")],
       inc |-> Increment],
      [type |-> "Put", Item |-> NewItem(body)]>>

\* the transaction is sent whatever the validation says
LikeProceeds_unvalidated(item) == TRUE

\* try { Like.parse(newItem); ... send ... }: a throw of parse skips the send
LikeProceeds(item) == LikeParse(item)

\* the catch block answering like the try block
LikeStatus_swallowed(ok) == 201

\* apiResponse(201, ...) after the send, apiResponse(500, ...) in the catch
LikeStatus(ok) == IF ok THEN 201 ELSE 500

(* ------------------------------- getRecipe ---------------------------- *)

\* an absent item reported as a failed read
GetStatus_absentIsError(found) == IF found THEN 200 ELSE 500

\* if (!data.Item) 404, else 200
GetStatus(found) == IF found THEN 200 ELSE 404

(* ------------------------------ invocations --------------------------- *)

Idle ==
    [op |-> "none", pc |-> "idle", req |-> <<>>, item |-> <<>>,
     sent |-> FALSE, fault |-> FALSE, existed |-> FALSE, status |-> 0,
     data |-> <<>>]

\* invocations are numbered in the order they begin
MayBegin(p) ==
    /\ inv[p].pc = "idle"
    /\ p > 1 => inv[p - 1].pc # "idle"

Init ==
    /\ table = {}
    /\ inv = [p \in Procs |-> Idle]
    /\ created = {}

\* createRecipe(username, id): create-if-absent of a Recipe item with
\* likeCount 0
CreateRecipe(username, id, ts) ==
    /\ ~HasItem(table, RecipeKey(username, id))
    /\ table' = table \cup
         {[PK |-> "USER#" \o username, SK |-> "RECIPE#" \o id,
           recordType |-> "RECIPE", createdAt |-> ts, likeCount |-> 0,
           title |-> "soup"]}
    /\ created' = created \cup {RecipeKey(username, id)}
    /\ UNCHANGED inv

\* updateRecipe(username, id, patch): NotFound when the item is absent,
\* otherwise the item replaced by itself with the patch applied; likeCount
\* is not a field a patch can set
UpdateRecipe(username, id, title) ==
    /\ HasItem(table, RecipeKey(username, id))
    /\ LET old == ItemAt(table, RecipeKey(username, id))
       IN table' = (table \ {old}) \cup {[old EXCEPT !.title = title]}
    /\ UNCHANGED <<inv, created>>

\* deleteRecipe(username, id): removes the item when it is there (deleting
\* an absent key is not an error); the recipe's Like items are left alone.
\* The existed marks of the likes of the deleted recipe are withdrawn.
DeleteRecipe(username, id) ==
    /\ table' = {it \in table : ~SameKey(it, RecipeKey(username, id))}
    /\ inv' = [p \in Procs |->
         IF /\ inv[p].op = "like" /\ inv[p].existed
            /\ HasItem(table, RecipeKey(username, id))
            /\ "RECIPE#" \o Field(inv[p].req, "recipeId") = RecipeKey(username, id).SK
         THEN [inv[p] EXCEPT !.existed = FALSE]
         ELSE inv[p]]
    /\ UNCHANGED created

\* likeRecipe up to the send: body parsed, newItem and params built,
\* Like.parse(newItem) run
LikeBegin(p, body) ==
    /\ MayBegin(p)
    /\ inv' = [inv EXCEPT ![p] =
         IF LikeProceeds(NewItem(body))
         THEN [Idle EXCEPT !.op = "like", !.pc = "validated", !.req = body,
                           !.item = NewItem(body)]
         ELSE [Idle EXCEPT !.op = "like", !.pc = "done", !.req = body,
                           !.item = NewItem(body), !.status = 500]]
    /\ UNCHANGED <<table, created>>

\* likeRecipe with an absent body: JSON.parse(event.body || {}) throws before
\* the try block, and the invocation ends without a response
LikeNoBody(p) ==
    /\ MayBegin(p)
    /\ inv' = [inv EXCEPT ![p] = [Idle EXCEPT !.op = "like", !.pc = "done"]]
    /\ UNCHANGED <<table, created>>

\* likeRecipe's docClient.send and the response; existed records that a
\* Recipe item with the request's recipeId was in the table at the send
\* (and, see DeleteRecipe, has not been deleted since)
LikeSend(p, fault) ==
    /\ inv[p].op = "like"
    /\ inv[p].pc = "validated"
    /\ LET r == IF fault THEN [ok |-> FALSE, table |-> table]
                ELSE TransactWrite(table, LikeParams(inv[p].req))
       IN /\ table' = r.table
          /\ inv' = [inv EXCEPT ![p].pc = "done", ![p].sent = TRUE,
                                ![p].fault = fault,
                                ![p].existed =
                                    RecipeItems(table, Field(inv[p].req, "recipeId")) # {},
                                ![p].status = LikeStatus(r.ok)]
    /\ UNCHANGED created

\* getRecipe up to the read: the path parameters checked, the key built
GetBegin(p, username, id) ==
    /\ MayBegin(p)
    /\ inv' = [inv EXCEPT ![p] =
         IF id = "" \/ username = ""
         THEN [Idle EXCEPT !.op = "get", !.pc = "done",
                           !.req = <<username, id>>, !.status = 400]
         ELSE [Idle EXCEPT !.op = "get", !.pc = "reading",
                           !.req = <<username, id>>,
                           !.item = RecipeKey(username, id)]]
    /\ UNCHANGED <<table, created>>

\* getRecipe's docClient.send(GetCommand) and the response
GetRead(p, fault) ==
    /\ inv[p].op = "get"
    /\ inv[p].pc = "reading"
    /\ LET found == HasItem(table, inv[p].item)
       IN inv' = [inv EXCEPT ![p].pc = "done", ![p].sent = TRUE,
                             ![p].fault = fault,
                             ![p].status = IF fault THEN 500 ELSE GetStatus(found),
                             ![p].data = IF ~fault /\ found
                                         THEN ItemAt(table, inv[p].item)
                                         ELSE <<>>]
    /\ UNCHANGED <<table, created>>

\* the listing handler begins
ListBegin(p) ==
    /\ MayBegin(p)
    /\ inv' = [inv EXCEPT ![p] = [Idle EXCEPT !.op = "list", !.pc = "scanning"]]
    /\ UNCHANGED <<table, created>>

\* the listing handler's dbClient.send(ScanCommand) and the response: a
\* throw of the send or of unmarshall inside the map ends in the catch
ListScan(p, fault, format) ==
    /\ inv[p].op = "list"
    /\ inv[p].pc = "scanning"
    /\ \E s \in ScanOrders(table) :
         LET Items == [i \in 1..Len(s) |-> Received(s[i], format)]
             ok == ~fault /\ \A i \in 1..Len(s) : Unmarshallable(Items[i])
         IN inv' = [inv EXCEPT ![p].pc = "done", ![p].sent = TRUE,
                               ![p].fault = fault,
                               ![p].status = IF ok THEN 200 ELSE 500,
                               ![p].data =
                                   IF ok
                                   THEN [i \in 1..Len(s) |-> Unmarshall(Items[i])]
                                   ELSE <<>>]
    /\ UNCHANGED <<table, created>>

Next ==
    \/ \E u \in Owners, id \in RecipeIds, ts \in Times : CreateRecipe(u, id, ts)
    \/ \E u \in Owners, id \in UpdateIds, t \in PatchTitles :
         UpdateRecipe(u, id, t)
    \/ \E u \in Owners, id \in RecipeIds : DeleteRecipe(u, id)
    \/ \E p \in Procs, body \in LikeBodies : LikeBegin(p, body)
    \/ \E p \in Procs : LikeNoBody(p)
    \/ \E p \in Procs, fault \in BOOLEAN : LikeSend(p, fault)
    \/ \E p \in Procs, u \in GetUsernames, id \in GetIds : GetBegin(p, u, id)
    \/ \E p \in Procs, fault \in BOOLEAN : GetRead(p, fault)
    \/ \E p \in Procs : ListBegin(p)
    \/ \E p \in Procs, fault \in BOOLEAN, format \in SendFormats :
         ListScan(p, fault, format)

Spec == Init /\ [][Next]_vars

(* ------------------------------- the claims --------------------------- *)

\* a likeRecipe invocation that passed validation and whose transaction
\* reached the store
LikeSent(p) ==
    /\ inv[p].op = "like"
    /\ inv[p].pc = "done"
    /\ inv[p].sent
    /\ ~inv[p].fault

LikeSucceeded(p) == inv[p].op = "like" /\ inv[p].pc = "done" /\ inv[p].status = 201

\* this step is the transaction step of some likeRecipe invocation
IsLikeSendStep ==
    \E p \in Procs :
        inv[p].op = "like" /\ inv[p].pc = "validated" /\ inv'[p].pc = "done"

\* likeCount stored under a key, -1 when no item with a likeCount is there
LikeCountAt(t, key) ==
    IF HasItem(t, key) /\ "likeCount" \in DOMAIN ItemAt(t, key)
    THEN ItemAt(t, key).likeCount
    ELSE -1

\* C1: in every reachable table, the likeCount a reader finds for a recipe
\* id equals the number of Like items recorded for that id: no increment
\* without its Like item and no Like item without its increment.
C1_CountMatchesLikes ==
    \A id \in RecipeIds :
        LikeCountOf(table, id) = Cardinality(LikeItems(table, id))

\* C1 witness: a valid like of an existing recipe went through the store
\* and the recipe is still in the table for a reader to inspect
C1_Witness ==
    \E p \in Procs :
        /\ LikeSent(p)
        /\ inv[p].existed
        /\ RecipeItems(table, inv[p].req.recipeId) # {}

\* C2: two completed likeRecipe calls with the same (recipeId, username)
\* for a recipe that was there at both calls and has not been deleted end
\* as one success and one Conflict, and the recipe's likeCount is 1.
C2_TwiceOneSuccessOneConflict ==
    \A p, q \in Procs :
        (/\ p < q
         /\ LikeSent(p) /\ LikeSent(q)
         /\ inv[p].existed /\ inv[q].existed
         /\ DOMAIN inv[p].req = {"recipeId", "userName"}
         /\ inv[p].req = inv[q].req
         /\ \A o \in Procs \ {p, q} : inv[o].op # "like")
        => /\ {inv[p].status, inv[q].status} = {201, 409}
           /\ LikeCountOf(table, inv[p].req.recipeId) = 1

\* C3: for every recipe id, the likeCount a reader finds equals the number
\* of likeRecipe calls for that id that returned success.
C3_CountEqualsSuccesses ==
    \A id \in RecipeIds :
        LikeCountOf(table, id) =
            Cardinality({p \in Procs :
                LikeSucceeded(p) /\ Field(inv[p].req, "recipeId") = id})

\* C3 witness: two distinct callers liked the same existing recipe and both
\* calls went through the store
C3_Witness ==
    \E p, q \in Procs :
        /\ p # q
        /\ LikeSent(p) /\ LikeSent(q)
        /\ inv[p].existed /\ inv[q].existed
        /\ inv[p].req.recipeId = inv[q].req.recipeId
        /\ inv[p].req.userName # inv[q].req.userName

\* C4: once likeRecipe(recipeId, username) has completed for an existing
\* recipe with likeCount 0 that nobody else liked, it has acknowledged and
\* a following getRecipe(owner, recipeId) returns likeCount 1 (the recipe
\* not having been deleted meanwhile).
C4_LikeThenGetSeesIncrement ==
    [][\A p, q \in Procs :
        (/\ LikeSent(p)
         /\ inv[p].existed
         /\ DOMAIN inv[p].req = {"recipeId", "userName"}
         /\ \A o \in Procs \ {p} : inv[o].op # "like"
         /\ inv[q].op = "get" /\ inv[q].pc = "reading"
         /\ inv[q].item.SK = "RECIPE#" \o inv[p].req.recipeId
         /\ HasItem(table, inv[q].item)
         /\ inv'[q].pc = "done" /\ ~inv'[q].fault)
        => /\ inv[p].status = 201
           /\ inv'[q].status = 200
           /\ inv'[q].data.likeCount = 1]_vars

\* C5: a likeRecipe transaction sent for a recipeId that has no Recipe item
\* is rejected and leaves the table as it was.
C5_AbsentRecipeRejected ==
    [][\A p \in Procs :
        (/\ inv[p].op = "like" /\ inv[p].pc = "validated"
         /\ inv'[p].pc = "done"
         /\ RecipeItems(table, Field(inv[p].req, "recipeId")) = {})
        => /\ table' = table
           /\ inv'[p].status = 500]_vars

\* C5 witness: a valid like of a recipe that was not there went through the
\* store
C5_Witness ==
    \E p \in Procs :
        /\ LikeSent(p)
        /\ ~inv[p].existed
        /\ RecipeItems(table, inv[p].req.recipeId) = {}

\* C6: getRecipe with non-empty username and id, for a key never created,
\* whose read did not fault, answers 404.
C6_NeverCreatedIsNotFound ==
    \A p \in Procs :
        (/\ inv[p].op = "get" /\ inv[p].pc = "done"
         /\ inv[p].req[1] # "" /\ inv[p].req[2] # ""
         /\ ~inv[p].fault
         /\ inv[p].item \notin created)
        => inv[p].status = 404

\* C6 witness: a getRecipe of a never-created key answered 404 while other
\* keys had been created and liked
C6_Witness ==
    \E p, q \in Procs :
        /\ inv[p].op = "get" /\ inv[p].pc = "done" /\ inv[p].sent
        /\ ~inv[p].fault
        /\ inv[p].item \notin created
        /\ created # {}
        /\ LikeSent(q)

\* C7: a likeRecipe invocation whose item fails validation never sends a
\* storage operation; it ends with the error response.
C7_InvalidNeverSent ==
    \A p \in Procs :
        (inv[p].op = "like" /\ inv[p].item # <<>> /\ ~LikeParse(inv[p].item))
        => /\ ~inv[p].sent
           /\ inv[p].pc = "done"
           /\ inv[p].status = 500

\* C7 witness: an invocation with an invalid item has ended while the table
\* holds a recipe
C7_Witness ==
    \E p \in Procs :
        /\ inv[p].op = "like" /\ inv[p].pc = "done"
        /\ inv[p].item # <<>>
        /\ ~LikeParse(inv[p].item)
        /\ table # {}

SortedByCreatedAt(s) ==
    \A i, j \in 1..Len(s) : i < j => s[i].createdAt <= s[j].createdAt

\* C8: a listing whose store read did not fault returns the items, by
\* ascending createdAt.
C8_ListingOrderedByCreatedAt ==
    \A p \in Procs :
        (inv[p].op = "list" /\ inv[p].pc = "done" /\ ~inv[p].fault)
        => /\ inv[p].status = 200
           /\ SortedByCreatedAt(inv[p].data)

\* C9: the item likeRecipe asks the store to put has the Like key of the
\* request's identifiers.
C9_LikeItemKeyFromIdentifiers ==
    \A p \in Procs :
        (inv[p].op = "like" /\ inv[p].sent)
        => /\ inv[p].item.PK = LikeKey(Field(inv[p].req, "recipeId"),
                                       Field(inv[p].req, "userName")).PK
           /\ inv[p].item.SK = LikeKey(Field(inv[p].req, "recipeId"),
                                       Field(inv[p].req, "userName")).SK

\* a step of one of the handlers likeRecipe, getRecipe, listing
IsHandlerStep == \E p \in Procs : inv'[p].pc # inv[p].pc

\* C10: in every step of likeRecipe, getRecipe and the listing handler, the
\* likeCount of every stored Recipe stays as it is or grows by exactly 1;
\* and in every step at all, a likeCount that is still stored changes only
\* in a likeRecipe transaction step.
C10_LikeCountOnlyIncrements ==
    [][\A it \in table :
        "likeCount" \in DOMAIN it =>
            /\ IsHandlerStep =>
                  LikeCountAt(table', it) \in {it.likeCount, it.likeCount + 1}
            /\ (HasItem(table', it) /\ LikeCountAt(table', it) # it.likeCount)
                  => IsLikeSendStep]_vars

\* C10 witness: likeRecipe and a reading handler have both run against
\* a stored recipe
C10_Witness ==
    \E p, q \in Procs :
        /\ LikeSent(p) /\ inv[p].existed
        /\ inv[q].op \in {"get", "list"} /\ inv[q].pc = "done" /\ inv[q].sent
        /\ \E it \in table : "likeCount" \in DOMAIN it

====
